---- MODULE Spec2Model ----
(***************************************************************************)
(* Ward Manager backend skeleton: configuration loading                    *)
(* (backend/src/config/index.ts), the Express application shell            *)
(* (backend/src/app.ts), the Database and RedisClient wrappers             *)
(* (config/database.ts, config/redis.ts) and the process entry point       *)
(* (backend/src/index.ts).                                                 *)
(*                                                                         *)
(* Four specifications share the variables:                                *)
(*   SpecConfig  loading of the configuration from process.env             *)
(*   Spec        the process: initialize, listen, serve, shut down         *)
(*   SpecStore   the two wrappers under arbitrary callers                  *)
(*   FairStore   SpecStore with the fairness the event loop gives          *)
(***************************************************************************)
EXTENDS Integers, Sequences, FiniteSets, TLC

VARIABLES
    processEnv,   \* process.env: [set, text, num]
    config,       \* the exported config object, keyed by environment variable
    configState,  \* "unloaded" | "loaded" | "threw"
    pool,         \* Database.pool: 0 for null, else the id of a Pool
    pools,        \* the Pool objects created so far, by id
    client,       \* RedisClient.client: 0 for null, else the id of a client
    clients,      \* the Redis clients created so far, by id
    frame,        \* per thread of control: the wrapper call it is in
    silent,       \* the stores that do not answer at present
    mainPc,       \* where startServer() is
    exitCode,     \* the code process.exit was called with, Running before
    server,       \* "none" | "listening" | "closing" | "closed"
    conns,        \* connections open on the server
    shutdowns,    \* the calls of gracefulShutdown so far
    events,       \* what the process has done so far, in order
    lastExchange, \* the request handled last, with its response and log
    now,          \* the clock, in minutes
    sessions,     \* the session store: per token a session record or NoSession
    ops,          \* per service instance: the session operation it is in, or its result
    users,        \* per user: failedLoginAttempts, lockedUntil and the last login result
    authz         \* role assignments, role permissions and the permission cache

configVars == <<processEnv, config, configState>>
storeVars == <<pool, pools, client, clients, frame, silent>>
procVars == <<mainPc, exitCode, server, conns, shutdowns, events>>
authVars == <<now, sessions, ops, users, authz>>
vars == <<processEnv, config, configState, pool, pools, client, clients, frame, silent,
          mainPc, exitCode, server, conns, shutdowns, events, lastExchange,
          now, sessions, ops, users, authz>>

(***************************************************************************)
(* Bounds                                                                  *)
(***************************************************************************)
\* longest value given to a numeric environment variable
MaxEnvLen == 2
\* Pool objects a run creates at most
MaxPools == 2
\* Redis clients a run creates at most
MaxClients == 2
\* calls of gracefulShutdown in a run at most
MaxShutdowns == 2
\* connections open at a time at most
MaxConns == 1
\* clients checked out of one pool at a time at most
MaxOut == 2
\* the clock stops at MaxNow minutes and advances by ClockStep minutes
MaxNow == 80
ClockStep == 10
\* mutations of roles and role permissions in a run at most
MaxVersion == 5

(***************************************************************************)
(* config/index.ts                                                         *)
(***************************************************************************)
Digits == {"0", "1", "2", "3", "4", "5", "6", "7", "8", "9"}

DigitVal == [d \in Digits |->
    CASE d = "0" -> 0 [] d = "1" -> 1 [] d = "2" -> 2 [] d = "3" -> 3
      [] d = "4" -> 4 [] d = "5" -> 5 [] d = "6" -> 6 [] d = "7" -> 7
      [] d = "8" -> 8 [] d = "9" -> 9]

\* the characters the environment's numeric values are drawn from
EnvChars == {"0", "1", "7", "x", " ", "-"}

RECURSIVE SeqsUpTo(_, _)
SeqsUpTo(S, n) ==
    IF n = 0 THEN {<<>>}
    ELSE LET shorter == SeqsUpTo(S, n - 1)
         IN  shorter \cup {Append(s, c) : s \in {t \in shorter : Len(t) = n - 1}, c \in S}

NumVars == {"PORT", "DB_PORT", "DB_POOL_MIN", "DB_POOL_MAX", "REDIS_PORT", "REDIS_DB",
            "SESSION_TIMEOUT_MINUTES", "SESSION_WARNING_MINUTES",
            "SESSION_MAX_DURATION_HOURS", "BCRYPT_ROUNDS", "MAX_LOGIN_ATTEMPTS",
            "LOCKOUT_DURATION_MINUTES", "RATE_LIMIT_WINDOW_MINUTES",
            "RATE_LIMIT_MAX_REQUESTS", "AUTH_RATE_LIMIT_WINDOW_MINUTES",
            "AUTH_RATE_LIMIT_MAX_ATTEMPTS"}

TextVars == {"NODE_ENV", "API_PREFIX", "DB_HOST", "DB_NAME", "DB_USER", "DB_PASSWORD",
             "REDIS_HOST", "REDIS_PASSWORD", "JWT_SECRET", "JWT_EXPIRES_IN",
             "JWT_REFRESH_EXPIRES_IN", "CORS_ORIGIN", "LOG_LEVEL", "LOG_FILE_PATH"}

BoolVars == {"CORS_CREDENTIALS"}

EnvVars == NumVars \cup TextVars \cup BoolVars

JwtPlaceholder == "your-secret-key-change-in-production"

\* the right-hand sides of `process.env.X || <default>` for the parseInt fields
NumDefault ==
    [v \in NumVars |->
        CASE v = "PORT" -> <<"3", "0", "0", "0">>
          [] v = "DB_PORT" -> <<"5", "4", "3", "2">>
          [] v = "DB_POOL_MIN" -> <<"2">>
          [] v = "DB_POOL_MAX" -> <<"1", "0">>
          [] v = "REDIS_PORT" -> <<"6", "3", "7", "9">>
          [] v = "REDIS_DB" -> <<"0">>
          [] v = "SESSION_TIMEOUT_MINUTES" -> <<"3", "0">>
          [] v = "SESSION_WARNING_MINUTES" -> <<"5">>
          [] v = "SESSION_MAX_DURATION_HOURS" -> <<"1", "2">>
          [] v = "BCRYPT_ROUNDS" -> <<"1", "2">>
          [] v = "MAX_LOGIN_ATTEMPTS" -> <<"5">>
          [] v = "LOCKOUT_DURATION_MINUTES" -> <<"1", "5">>
          [] v = "RATE_LIMIT_WINDOW_MINUTES" -> <<"1">>
          [] v = "RATE_LIMIT_MAX_REQUESTS" -> <<"1", "0", "0">>
          [] v = "AUTH_RATE_LIMIT_WINDOW_MINUTES" -> <<"1", "5">>
          [] v = "AUTH_RATE_LIMIT_MAX_ATTEMPTS" -> <<"5">>]

\* the right-hand sides of `process.env.X || <default>` for the string fields
TextDefault ==
    [v \in TextVars |->
        CASE v = "NODE_ENV" -> "development"
          [] v = "API_PREFIX" -> "/api"
          [] v = "DB_HOST" -> "localhost"
          [] v = "DB_NAME" -> "ward_manager"
          [] v = "DB_USER" -> "postgres"
          [] v = "DB_PASSWORD" -> "postgres"
          [] v = "REDIS_HOST" -> "localhost"
          [] v = "REDIS_PASSWORD" -> ""
          [] v = "JWT_SECRET" -> JwtPlaceholder
          [] v = "JWT_EXPIRES_IN" -> "30m"
          [] v = "JWT_REFRESH_EXPIRES_IN" -> "7d"
          [] v = "CORS_ORIGIN" -> "http://localhost:5173"
          [] v = "LOG_LEVEL" -> "info"
          [] v = "LOG_FILE_PATH" -> "./logs/app.log"]

\* a JavaScript number: an integer or NaN
NaN == [nan |-> TRUE, val |-> 0]
Num(n) == [nan |-> FALSE, val |-> n]

\* value of a sequence of decimal digits
RECURSIVE DecValue(_)
DecValue(ds) ==
    IF ds = <<>> THEN 0
    ELSE 10 * DecValue(SubSeq(ds, 1, Len(ds) - 1)) + DigitVal[ds[Len(ds)]]

\* s without its leading white space
RECURSIVE TrimStart(_)
TrimStart(s) ==
    IF s # <<>> /\ Head(s) = " " THEN TrimStart(Tail(s)) ELSE s

\* the longest prefix of s made of decimal digits
RECURSIVE DigitPrefix(_)
DigitPrefix(s) ==
    IF s # <<>> /\ Head(s) \in Digits THEN <<Head(s)>> \o DigitPrefix(Tail(s)) ELSE <<>>

\* parseInt(s, 10): leading white space is skipped, then an optional sign, then
\* the longest run of digits is read; NaN when there is no digit to read
parseInt(s) ==
    LET t    == TrimStart(s)
        neg  == t # <<>> /\ Head(t) = "-"
        body == IF t # <<>> /\ Head(t) \in {"-", "+"} THEN Tail(t) ELSE t
        ds   == DigitPrefix(body)
    IN  IF ds = <<>> THEN NaN
        ELSE Num(IF neg THEN 0 - DecValue(ds) ELSE DecValue(ds))

\* `process.env.X || d` for a string-valued X: unset and '' are both falsy
TextOr(env, v, d) ==
    IF v \in env.set /\ env.text[v] # "" THEN env.text[v] ELSE d

\* `process.env.X || d` for a variable handed to parseInt
NumOr(env, v, d) ==
    IF v \in env.set /\ env.num[v] # <<>> THEN env.num[v] ELSE d

\* the object literal `config`
BuildConfig(env) ==
    [v \in EnvVars |->
        IF v \in NumVars THEN parseInt(NumOr(env, v, NumDefault[v]))
        ELSE IF v \in TextVars THEN TextOr(env, v, TextDefault[v])
        ELSE (v \in env.set /\ env.text[v] = "true")]

\* a validation that forgets the data base password
ConfigErrorJwtOnly(c) ==
    IF c["NODE_ENV"] = "production" /\ c["JWT_SECRET"] = JwtPlaceholder
    THEN "JWT_SECRET must be set in production environment"
    ELSE "none"

\* "Validate critical configuration": the message of the Error thrown, or "none"
ConfigError(c) ==
    IF c["NODE_ENV"] = "production"
    THEN IF c["JWT_SECRET"] = JwtPlaceholder
         THEN "JWT_SECRET must be set in production environment"
         ELSE IF c["DB_PASSWORD"] = "" \/ c["DB_PASSWORD"] = "postgres"
              THEN "DB_PASSWORD must be set securely in production environment"
              ELSE "none"
    ELSE "none"

Unloaded == [v \in EnvVars |-> IF v \in NumVars THEN NaN ELSE IF v \in TextVars THEN "" ELSE FALSE]

\* evaluation of the module config/index.ts
LoadConfig ==
    /\ configState = "unloaded"
    /\ LET c == BuildConfig(processEnv)
       IN  IF ConfigError(c) = "none"
           THEN /\ config' = c
                /\ configState' = "loaded"
           ELSE /\ config' = config
                /\ configState' = "threw"
    /\ UNCHANGED processEnv

(***************************************************************************)
(* Threads of control.  An async call of a wrapper method is a frame of    *)
(* the thread that awaits it.                                              *)
(***************************************************************************)
Main == <<"main", 0>>
Callers == {<<"caller", 1>>}
\* two requests in flight that use the database wrapper at the same time
DbCallers == {<<"caller", 1>>, <<"caller", 2>>}
CloseCallback(i) == <<"close", i>>
Threads == {Main} \cup Callers \cup DbCallers \cup {CloseCallback(i) : i \in 1..MaxShutdowns}

NotInitDb == "Database pool not initialized. Call connect() first."
NotInitRedis == "Redis client not initialized. Call connect() first."

IdleFrame ==
    [op |-> "none", pc |-> "idle", obj |-> 0, err |-> "none", cmd |-> "none",
     exp |-> -1, logged |-> FALSE]

\* a frame that awaits the store
Awaiting(op, pc, obj) == [IdleFrame EXCEPT !.op = op, !.pc = pc, !.obj = obj]
\* a frame whose promise is fulfilled
Resolved(f) == [f EXCEPT !.pc = "resolved", !.err = "none"]
\* a frame whose promise is rejected with e, without a log entry
Rejected(f, e) == [f EXCEPT !.pc = "rejected", !.err = e]
\* `logger.error(...); throw error`
Caught(f, e) == [f EXCEPT !.pc = "rejected", !.err = e, !.logged = TRUE]

Settled(t) == frame[t].pc \in {"idle", "resolved", "rejected"}

(***************************************************************************)
(* config/database.ts: class Database                                      *)
(***************************************************************************)
NewPool == [ending |-> FALSE, ended |-> FALSE, out |-> 0]

\* connect(), up to `await this.pool.connect()`
Database_connect(t) ==
    /\ Len(pools) < MaxPools
    /\ pools' = Append(pools, NewPool)
    /\ pool' = Len(pools) + 1
    /\ frame' = [frame EXCEPT ![t] = Awaiting("db.connect", "await_pool_connect", Len(pools) + 1)]
    /\ UNCHANGED <<client, clients, silent>>

\* the ways `pool.connect()` settles: a client is checked out, the pool or
\* the store refuses, or connectionTimeoutMillis passes
PoolConnectCan(t, r) ==
    /\ frame[t].pc = "await_pool_connect"
    /\ r = "client" => /\ "db" \notin silent
                        /\ ~pools[frame[t].obj].ending
                        /\ pools[frame[t].obj].out < MaxOut
    /\ r = "store_error" => "db" \notin silent \/ pools[frame[t].obj].ending
    /\ r \in {"client", "store_error", "timeout"}

CheckOut(id) == [pools EXCEPT ![id].out = @ + 1]
Release(id) == [pools EXCEPT ![id].out = @ - 1]

\* connect(): a client was obtained, `await client.query('SELECT NOW()')`
Database_connect_acquired(t) ==
    /\ frame[t].op = "db.connect"
    /\ PoolConnectCan(t, "client")
    /\ pools' = CheckOut(frame[t].obj)
    /\ frame' = [frame EXCEPT ![t].pc = "await_test_query"]
    /\ UNCHANGED <<pool, client, clients, silent>>

\* connect(): the test query succeeded: `client.release()`, log, return
Database_connect_tested(t) ==
    /\ frame[t].op = "db.connect"
    /\ frame[t].pc = "await_test_query"
    /\ "db" \notin silent
    /\ pools' = Release(frame[t].obj)
    /\ frame' = [frame EXCEPT ![t] = Resolved(@)]
    /\ UNCHANGED <<pool, client, clients, silent>>

\* connect(): the catch block: log and rethrow
Database_connect_catch(t) ==
    /\ frame[t].op = "db.connect"
    /\ \/ \E r \in {"store_error", "timeout"} :
            /\ PoolConnectCan(t, r)
            /\ frame' = [frame EXCEPT ![t] = Caught(@, r)]
       \/ /\ frame[t].pc = "await_test_query"
          /\ "db" \notin silent
          /\ frame' = [frame EXCEPT ![t] = Caught(@, "store_error")]
    /\ UNCHANGED <<pool, pools, client, clients, silent>>

\* getClient(), up to `return this.pool.connect()`
Database_getClient(t) ==
    /\ IF pool = 0
       THEN frame' = [frame EXCEPT ![t] = Rejected(Awaiting("db.getClient", "call", 0), NotInitDb)]
       ELSE frame' = [frame EXCEPT ![t] = Awaiting("db.getClient", "await_pool_connect", pool)]
    /\ UNCHANGED <<pool, pools, client, clients, silent>>

\* getClient(): the promise returned by pool.connect() settles
Database_getClient_settled(t) ==
    /\ frame[t].op = "db.getClient"
    /\ \E r \in {"client", "store_error", "timeout"} :
        /\ PoolConnectCan(t, r)
        /\ IF r = "client"
           THEN /\ pools' = CheckOut(frame[t].obj)
                /\ frame' = [frame EXCEPT ![t] = Resolved(@)]
           ELSE /\ pools' = pools
                /\ frame' = [frame EXCEPT ![t] = Rejected(@, r)]
    /\ UNCHANGED <<pool, client, clients, silent>>

\* a query() without the null check: reading `query` of null throws inside
\* the try block
Database_query_NoCheck(t) ==
    /\ IF pool = 0
       THEN frame' = [frame EXCEPT ![t] = Caught(Awaiting("db.query", "call", 0), "TypeError")]
       ELSE frame' = [frame EXCEPT ![t] = Awaiting("db.query", "await_pool_connect", pool)]
    /\ UNCHANGED <<pool, pools, client, clients, silent>>

\* query(), up to `await this.pool.query(text, params)`
Database_query(t) ==
    /\ IF pool = 0
       THEN frame' = [frame EXCEPT ![t] = Rejected(Awaiting("db.query", "call", 0), NotInitDb)]
       ELSE frame' = [frame EXCEPT ![t] = Awaiting("db.query", "await_pool_connect", pool)]
    /\ UNCHANGED <<pool, pools, client, clients, silent>>

\* query(): pool.query has checked a client out and sent the statement
Database_query_sent(t) ==
    /\ frame[t].op = "db.query"
    /\ PoolConnectCan(t, "client")
    /\ pools' = CheckOut(frame[t].obj)
    /\ frame' = [frame EXCEPT ![t].pc = "await_query"]
    /\ UNCHANGED <<pool, client, clients, silent>>

\* query(): pool.query settles; a result is logged at debug level and
\* returned, an error is logged and rethrown
Database_query_settled(t) ==
    /\ frame[t].op = "db.query"
    /\ \/ \E r \in {"store_error", "timeout"} :
            /\ PoolConnectCan(t, r)
            /\ pools' = pools
            /\ frame' = [frame EXCEPT ![t] = Caught(@, r)]
       \/ /\ frame[t].pc = "await_query"
          /\ "db" \notin silent
          /\ pools' = Release(frame[t].obj)
          /\ \/ frame' = [frame EXCEPT ![t] = Resolved(@)]
             \/ frame' = [frame EXCEPT ![t] = Caught(@, "store_error")]
    /\ UNCHANGED <<pool, client, clients, silent>>

\* disconnect(), up to `await this.pool.end()`; a pool rejects a second end()
Database_disconnect(t) ==
    /\ IF pool = 0
       THEN /\ frame' = [frame EXCEPT ![t] = Resolved(Awaiting("db.disconnect", "call", 0))]
            /\ pools' = pools
       ELSE IF pools[pool].ending
            THEN /\ frame' = [frame EXCEPT ![t] =
                        Rejected(Awaiting("db.disconnect", "call", pool), "end_twice")]
                 /\ pools' = pools
            ELSE /\ frame' = [frame EXCEPT ![t] = Awaiting("db.disconnect", "await_end", pool)]
                 /\ pools' = [pools EXCEPT ![pool].ending = TRUE]
    /\ UNCHANGED <<pool, client, clients, silent>>

\* a disconnect() that keeps the handle of the pool it has ended
Database_disconnect_ended_KeepHandle(t) ==
    /\ frame[t].op = "db.disconnect"
    /\ frame[t].pc = "await_end"
    /\ pools[frame[t].obj].out = 0
    /\ "db" \notin silent
    /\ pools' = [pools EXCEPT ![frame[t].obj].ended = TRUE]
    /\ frame' = [frame EXCEPT ![t] = Resolved(@)]
    /\ UNCHANGED <<pool, client, clients, silent>>

\* disconnect(): pool.end() resolved (every client is back and closed):
\* `this.pool = null`
Database_disconnect_ended(t) ==
    /\ frame[t].op = "db.disconnect"
    /\ frame[t].pc = "await_end"
    /\ pools[frame[t].obj].out = 0
    /\ "db" \notin silent
    /\ pools' = [pools EXCEPT ![frame[t].obj].ended = TRUE]
    /\ pool' = 0
    /\ frame' = [frame EXCEPT ![t] = Resolved(@)]
    /\ UNCHANGED <<client, clients, silent>>

\* getPool()
Database_getPool(t) ==
    /\ IF pool = 0
       THEN frame' = [frame EXCEPT ![t] = Rejected(Awaiting("db.getPool", "call", 0), NotInitDb)]
       ELSE frame' = [frame EXCEPT ![t] = Resolved(Awaiting("db.getPool", "call", pool))]
    /\ UNCHANGED <<pool, pools, client, clients, silent>>

(***************************************************************************)
(* config/redis.ts: class RedisClient                                      *)
(***************************************************************************)
\* connect(), up to `await this.client.connect()`
RedisClient_connect(t) ==
    /\ Len(clients) < MaxClients
    /\ clients' = Append(clients, [state |-> "new", quit |-> FALSE])
    /\ client' = Len(clients) + 1
    /\ frame' = [frame EXCEPT ![t] = Awaiting("redis.connect", "await_connect", Len(clients) + 1)]
    /\ UNCHANGED <<pool, pools, silent>>

\* connect(): the socket is open, `await this.client.ping()`
RedisClient_connect_opened(t) ==
    /\ frame[t].op = "redis.connect"
    /\ frame[t].pc = "await_connect"
    /\ "redis" \notin silent
    /\ clients' = [clients EXCEPT ![frame[t].obj].state = "open"]
    /\ frame' = [frame EXCEPT ![t].pc = "await_ping"]
    /\ UNCHANGED <<pool, pools, client, silent>>

\* connect(): the ping was answered: log, return
RedisClient_connect_ready(t) ==
    /\ frame[t].op = "redis.connect"
    /\ frame[t].pc = "await_ping"
    /\ "redis" \notin silent
    /\ clients[frame[t].obj].state = "open"
    /\ frame' = [frame EXCEPT ![t] = Resolved(@)]
    /\ UNCHANGED <<pool, pools, client, clients, silent>>

\* connect(): the catch block: client.connect() or ping() rejected
RedisClient_connect_catch(t) ==
    /\ frame[t].op = "redis.connect"
    /\ frame[t].pc \in {"await_connect", "await_ping"}
    /\ "redis" \notin silent \/ clients[frame[t].obj].state = "closed"
    /\ frame' = [frame EXCEPT ![t] = Caught(@, "store_error")]
    /\ UNCHANGED <<pool, pools, client, clients, silent>>

\* getClient()
RedisClient_getClient(t) ==
    /\ IF client = 0
       THEN frame' = [frame EXCEPT ![t] = Rejected(Awaiting("redis.getClient", "call", 0), NotInitRedis)]
       ELSE frame' = [frame EXCEPT ![t] = Resolved(Awaiting("redis.getClient", "call", client))]
    /\ UNCHANGED <<pool, pools, client, clients, silent>>

\* the null check that opens set, get, del, exists and expire, then the
\* command cmd sent on this.client
RedisCommand(t, op, cmd, exp) ==
    /\ IF client = 0
       THEN frame' = [frame EXCEPT ![t] =
                [Rejected(Awaiting(op, "call", 0), NotInitRedis) EXCEPT !.exp = exp]]
       ELSE frame' = [frame EXCEPT ![t] =
                [Awaiting(op, "await_command", client) EXCEPT !.cmd = cmd, !.exp = exp]]
    /\ UNCHANGED <<pool, pools, client, clients, silent>>

\* set(key, value, expirationSeconds); exp = -1 stands for an omitted argument
RedisClient_set(t, exp) ==
    RedisCommand(t, "redis.set", IF exp # -1 /\ exp # 0 THEN "setEx" ELSE "set", exp)

\* get(key)
RedisClient_get(t) == RedisCommand(t, "redis.get", "get", -1)

\* del(key)
RedisClient_del(t) == RedisCommand(t, "redis.del", "del", -1)

\* exists(key)
RedisClient_exists(t) == RedisCommand(t, "redis.exists", "exists", -1)

\* expire(key, seconds)
RedisClient_expire(t, seconds) == RedisCommand(t, "redis.expire", "expire", seconds)

\* a catch block that logs the error and returns
RedisClient_command_settled_Swallow(t) ==
    /\ frame[t].pc = "await_command"
    /\ \/ /\ "redis" \notin silent
          /\ clients[frame[t].obj].state = "open"
          /\ frame' = [frame EXCEPT ![t] = Resolved(@)]
       \/ /\ "redis" \notin silent \/ clients[frame[t].obj].state # "open"
          /\ frame' = [frame EXCEPT ![t] = [Resolved(@) EXCEPT !.logged = TRUE]]
    /\ UNCHANGED <<pool, pools, client, clients, silent>>

\* set, get, del, exists, expire: the command settles; a reply is returned,
\* an error is logged and rethrown
RedisClient_command_settled(t) ==
    /\ frame[t].pc = "await_command"
    /\ \/ /\ "redis" \notin silent
          /\ clients[frame[t].obj].state = "open"
          /\ frame' = [frame EXCEPT ![t] = Resolved(@)]
       \/ /\ "redis" \notin silent \/ clients[frame[t].obj].state # "open"
          /\ frame' = [frame EXCEPT ![t] = Caught(@, "store_error")]
    /\ UNCHANGED <<pool, pools, client, clients, silent>>

\* disconnect(), up to `await this.client.quit()`
RedisClient_disconnect(t) ==
    /\ IF client = 0
       THEN /\ frame' = [frame EXCEPT ![t] = Resolved(Awaiting("redis.disconnect", "call", 0))]
            /\ clients' = clients
       ELSE /\ frame' = [frame EXCEPT ![t] = Awaiting("redis.disconnect", "await_quit", client)]
            /\ clients' = [clients EXCEPT ![client].quit = TRUE]
    /\ UNCHANGED <<pool, pools, client, silent>>

\* disconnect(): quit() resolved: `this.client = null`
RedisClient_disconnect_closed(t) ==
    /\ frame[t].op = "redis.disconnect"
    /\ frame[t].pc = "await_quit"
    /\ "redis" \notin silent
    /\ clients[frame[t].obj].state = "open"
    /\ clients' = [clients EXCEPT ![frame[t].obj].state = "closed"]
    /\ client' = 0
    /\ frame' = [frame EXCEPT ![t] = Resolved(@)]
    /\ UNCHANGED <<pool, pools, silent>>

\* disconnect(): quit() rejected (the client is not open); nothing catches it
RedisClient_disconnect_failed(t) ==
    /\ frame[t].op = "redis.disconnect"
    /\ frame[t].pc = "await_quit"
    /\ clients[frame[t].obj].state # "open"
    /\ frame' = [frame EXCEPT ![t] = Rejected(@, "store_error")]
    /\ UNCHANGED <<pool, pools, client, clients, silent>>

(***************************************************************************)
(* The stores: PostgreSQL and Redis as the wrappers see them               *)
(***************************************************************************)
Stores == {"db", "redis"}

\* a store stops answering (a partition, a hung server)
StoreFalls(s) ==
    /\ s \notin silent
    /\ silent' = silent \cup {s}
    /\ UNCHANGED <<pool, pools, client, clients, frame>>

\* a store answers again
StoreRecovers(s) ==
    /\ s \in silent
    /\ silent' = silent \ {s}
    /\ UNCHANGED <<pool, pools, client, clients, frame>>

(***************************************************************************)
(* app.ts: class App.  A request is run through the stack of layers in the *)
(* order the constructor registered them.  A layer calls next(), calls     *)
(* next(err) or sends the response.                                        *)
(***************************************************************************)
Methods == {"GET", "HEAD", "POST", "OPTIONS"}
Paths == {"/health", "/HEALTH/", "/api/auth/login"}
Bodies == {"none", "json", "malformed_json", "malformed_urlencoded"}
Requests == [method : Methods, path : Paths, body : Bodies]

NoError == [message |-> "", status |-> 0]
NoResponse == [sent |-> FALSE, status |-> 0, body |-> [kind |-> "none"]]

\* res.status(status).json(body)
Send(ctx, status, body) ==
    [ctx EXCEPT !.res = [sent |-> TRUE, status |-> status, body |-> body]]

\* next(err)
NextErr(ctx, e) == [ctx EXCEPT !.err = e]

NewContext(req) ==
    [req |-> req, res |-> NoResponse, err |-> NoError, headers |-> {}, log |-> <<>>]

\* helmet(): sets the security headers and calls next()
helmet(ctx) == [ctx EXCEPT !.headers = @ \cup {"helmet"}]

\* cors({origin, credentials}): origin is a non-empty string, so the headers
\* are always set; an OPTIONS request is taken for a preflight and answered
\* by the middleware itself (preflightContinue is off) with 204
cors(ctx) ==
    LET c == [ctx EXCEPT !.headers = @ \cup {"Access-Control-Allow-Origin"}]
    IN  IF ctx.req.method = "OPTIONS" THEN Send(c, 204, [kind |-> "empty"]) ELSE c

\* express.json(): a body that does not parse is handed to next(err) with
\* status 400, whatever the method
expressJson(ctx) ==
    IF ctx.req.body = "malformed_json"
    THEN NextErr(ctx, [message |-> "Unexpected end of JSON input", status |-> 400])
    ELSE ctx

\* express.urlencoded({ extended: true }): likewise
expressUrlencoded(ctx) ==
    IF ctx.req.body = "malformed_urlencoded"
    THEN NextErr(ctx, [message |-> "too many parameters", status |-> 413])
    ELSE ctx

\* the request logging middleware
requestLogger(ctx) ==
    [ctx EXCEPT !.log = Append(@, [level |-> "info", method |-> ctx.req.method,
                                   path |-> ctx.req.path])]

\* app.get('/health', ...) matches as Express routes do by default: without
\* regard to case, with or without a trailing slash, and HEAD as GET
MatchesHealth(req) ==
    /\ req.method \in {"GET", "HEAD"}
    /\ req.path \in {"/health", "/HEALTH/"}

HealthBody == [kind |-> "health", status |-> "ok", timestamp |-> TRUE, uptime |-> TRUE]

\* a health check that answers for the data base as well
healthRouteDeep(ctx) ==
    IF MatchesHealth(ctx.req)
    THEN IF pool # 0 /\ client # 0
         THEN Send(ctx, 200, HealthBody)
         ELSE Send(ctx, 503, [HealthBody EXCEPT !.status = "unavailable"])
    ELSE ctx

\* the health check endpoint
healthRoute(ctx) ==
    IF MatchesHealth(ctx.req) THEN Send(ctx, 200, HealthBody) ELSE ctx

ErrorBody(code, message) ==
    [kind |-> "error", code |-> code, message |-> message, timestamp |-> TRUE]

\* a last handler that answers every unknown path with a page
notFound_Fallback(ctx) ==
    Send(ctx, 200, [kind |-> "page"])

\* the 404 handler
notFound(ctx) ==
    Send(ctx, 404, ErrorBody("NOT_FOUND", "The requested resource was not found"))

GenericMessage == "An internal server error occurred"

\* an error handler that hands the error's message out everywhere
errorHandler_Verbose(ctx, nodeEnv) ==
    LET logged == [ctx EXCEPT !.log = Append(@,
                      [level |-> "error", error |-> ctx.err.message, stack |-> TRUE,
                       path |-> ctx.req.path, method |-> ctx.req.method])]
    IN  Send(logged, 500, ErrorBody("INTERNAL_SERVER_ERROR", ctx.err.message))

\* the global error handler
errorHandler(ctx, nodeEnv) ==
    LET logged == [ctx EXCEPT !.log = Append(@,
                      [level |-> "error", error |-> ctx.err.message, stack |-> TRUE,
                       path |-> ctx.req.path, method |-> ctx.req.method])]
    IN  Send(logged, 500,
             ErrorBody("INTERNAL_SERVER_ERROR",
                       IF nodeEnv = "production" THEN GenericMessage ELSE ctx.err.message))

Stack == <<"helmet", "cors", "json", "urlencoded", "requestLogger", "healthRoute",
           "notFound", "errorHandler">>

\* the layers that take (err, req, res, next)
ErrorLayers == {"errorHandler"}

Layer(name, ctx, nodeEnv) ==
    CASE name = "helmet" -> helmet(ctx)
      [] name = "cors" -> cors(ctx)
      [] name = "json" -> expressJson(ctx)
      [] name = "urlencoded" -> expressUrlencoded(ctx)
      [] name = "requestLogger" -> requestLogger(ctx)
      [] name = "healthRoute" -> healthRoute(ctx)
      [] name = "notFound" -> notFound(ctx)
      [] name = "errorHandler" -> errorHandler(ctx, nodeEnv)

\* Express's dispatch from layer i on: once an error is pending only the
\* error layers run, and nothing runs after the response is sent
RECURSIVE Dispatch(_, _, _)
Dispatch(ctx, i, nodeEnv) ==
    IF i > Len(Stack) \/ ctx.res.sent THEN ctx
    ELSE IF (ctx.err = NoError) = (Stack[i] \notin ErrorLayers)
         THEN Dispatch(Layer(Stack[i], ctx, nodeEnv), i + 1, nodeEnv)
         ELSE Dispatch(ctx, i + 1, nodeEnv)

\* the application's answer to one request
Handle(req, nodeEnv) == Dispatch(NewContext(req), 1, nodeEnv)

(***************************************************************************)
(* index.ts: initialize, startServer, gracefulShutdown                     *)
(***************************************************************************)
Running == -1

Signals == {"SIGTERM", "SIGINT", "uncaughtException", "unhandledRejection"}

Event(name, i) == <<name, i>>

\* process.exit(code), called by the close callback or the timer of the
\* i-th gracefulShutdown (0: by initialize)
ProcessExit(code, i) ==
    /\ exitCode' = code
    /\ events' = Append(events, Event(IF code = 0 THEN "exit0" ELSE "exit1", i))

\* `import config from './config'` threw: nothing catches it
Import_failed ==
    /\ exitCode = Running
    /\ mainPc = "import"
    /\ configState = "threw"
    /\ mainPc' = "failed"
    /\ ProcessExit(1, 0)
    /\ UNCHANGED <<configVars, storeVars, server, conns, shutdowns, lastExchange, authVars>>

\* startServer() -> initialize(): `await database.connect()`
Initialize_connectDatabase ==
    /\ exitCode = Running
    /\ mainPc = "import"
    /\ configState = "loaded"
    /\ Database_connect(Main)
    /\ mainPc' = "init_db"
    /\ UNCHANGED <<configVars, exitCode, server, conns, shutdowns, events, lastExchange, authVars>>

\* initialize(): database.connect() resolved, `await redis.connect()`
Initialize_connectRedis ==
    /\ exitCode = Running
    /\ mainPc = "init_db"
    /\ frame[Main].pc = "resolved"
    /\ RedisClient_connect(Main)
    /\ mainPc' = "init_redis"
    /\ events' = Append(events, Event("db_connected", 0))
    /\ UNCHANGED <<configVars, exitCode, server, conns, shutdowns, lastExchange, authVars>>

\* initialize(): redis.connect() resolved, log and return
Initialize_done ==
    /\ exitCode = Running
    /\ mainPc = "init_redis"
    /\ frame[Main].pc = "resolved"
    /\ mainPc' = "initialized"
    /\ events' = Append(events, Event("redis_connected", 0))
    /\ UNCHANGED <<configVars, storeVars, exitCode, server, conns, shutdowns, lastExchange, authVars>>

\* a catch block that logs the error and returns
Initialize_catch_NoExit ==
    /\ exitCode = Running
    /\ mainPc \in {"init_db", "init_redis"}
    /\ frame[Main].pc = "rejected"
    /\ mainPc' = "initialized"
    /\ UNCHANGED <<configVars, storeVars, exitCode, server, conns, shutdowns, events,
                   lastExchange, authVars>>

\* initialize(): the catch block: log, process.exit(1)
Initialize_catch ==
    /\ exitCode = Running
    /\ mainPc \in {"init_db", "init_redis"}
    /\ frame[Main].pc = "rejected"
    /\ mainPc' = "failed"
    /\ ProcessExit(1, 0)
    /\ UNCHANGED <<configVars, storeVars, server, conns, shutdowns, lastExchange, authVars>>

\* startServer(): initialize() returned: listen, define gracefulShutdown and
\* register the four process.on handlers
StartServer_listen ==
    /\ exitCode = Running
    /\ mainPc = "initialized"
    /\ server' = "listening"
    /\ mainPc' = "serving"
    /\ events' = Append(events, Event("listen", 0))
    /\ UNCHANGED <<configVars, storeVars, exitCode, conns, shutdowns, lastExchange, authVars>>

\* a client connects
ConnOpen ==
    /\ exitCode = Running
    /\ server = "listening"
    /\ conns < MaxConns
    /\ conns' = conns + 1
    /\ UNCHANGED <<configVars, storeVars, mainPc, exitCode, server, shutdowns, events,
                   lastExchange, authVars>>

\* a connection ends
ConnClose ==
    /\ exitCode = Running
    /\ conns > 0
    /\ conns' = conns - 1
    /\ UNCHANGED <<configVars, storeVars, mainPc, exitCode, server, shutdowns, events,
                   lastExchange, authVars>>

\* a request arrives on an open connection and runs through the app
HandleRequest(req) ==
    /\ exitCode = Running
    /\ server \in {"listening", "closing"}
    /\ conns > 0
    /\ lastExchange = [served |-> FALSE]
    /\ lastExchange' = [served |-> TRUE, ctx |-> Handle(req, config["NODE_ENV"])]
    /\ UNCHANGED <<configVars, storeVars, procVars, authVars>>

\* the response has gone out
ResponseSent ==
    /\ exitCode = Running
    /\ lastExchange # [served |-> FALSE]
    /\ lastExchange' = [served |-> FALSE]
    /\ UNCHANGED <<configVars, storeVars, procVars, authVars>>

\* gracefulShutdown(signal): server.close(callback), setTimeout(..., 10000)
GracefulShutdown(signal) ==
    /\ exitCode = Running
    /\ mainPc = "serving"
    /\ Len(shutdowns) < MaxShutdowns
    /\ shutdowns' = Append(shutdowns, [signal |-> signal, pc |-> "wait_close", timer |-> TRUE])
    /\ server' = IF server = "listening" THEN "closing" ELSE server
    /\ events' = Append(events, Event(signal, Len(shutdowns) + 1))
    /\ UNCHANGED <<configVars, storeVars, mainPc, exitCode, conns, lastExchange, authVars>>

\* a close callback that does not wait for database.disconnect()
ServerClosed_NoAwait(i) ==
    /\ exitCode = Running
    /\ i \in 1..Len(shutdowns)
    /\ shutdowns[i].pc = "wait_close"
    /\ conns = 0
    /\ server' = "closed"
    /\ RedisClient_disconnect(CloseCallback(i))
    /\ shutdowns' = [shutdowns EXCEPT ![i].pc = "redis_disconnect"]
    /\ events' = events \o <<Event("server_closed", i), Event("db_disconnect_start", i),
                             Event("redis_disconnect_start", i)>>
    /\ UNCHANGED <<configVars, mainPc, exitCode, conns, lastExchange, authVars>>

\* the callback of server.close runs (no connection is left):
\* `await database.disconnect()`
ServerClosed(i) ==
    /\ exitCode = Running
    /\ i \in 1..Len(shutdowns)
    /\ shutdowns[i].pc = "wait_close"
    /\ conns = 0
    /\ server' = "closed"
    /\ Database_disconnect(CloseCallback(i))
    /\ shutdowns' = [shutdowns EXCEPT ![i].pc = "db_disconnect"]
    /\ events' = events \o <<Event("server_closed", i), Event("db_disconnect_start", i)>>
    /\ UNCHANGED <<configVars, mainPc, exitCode, conns, lastExchange, authVars>>

\* the close callback: database.disconnect() resolved, `await redis.disconnect()`
Shutdown_disconnectRedis(i) ==
    /\ exitCode = Running
    /\ i \in 1..Len(shutdowns)
    /\ shutdowns[i].pc = "db_disconnect"
    /\ frame[CloseCallback(i)].pc = "resolved"
    /\ RedisClient_disconnect(CloseCallback(i))
    /\ shutdowns' = [shutdowns EXCEPT ![i].pc = "redis_disconnect"]
    /\ events' = events \o <<Event("db_disconnect_done", i), Event("redis_disconnect_start", i)>>
    /\ UNCHANGED <<configVars, mainPc, exitCode, server, conns, lastExchange, authVars>>

\* the close callback: redis.disconnect() resolved, process.exit(0)
Shutdown_exit(i) ==
    /\ exitCode = Running
    /\ i \in 1..Len(shutdowns)
    /\ shutdowns[i].pc = "redis_disconnect"
    /\ frame[CloseCallback(i)].pc = "resolved"
    /\ shutdowns' = [shutdowns EXCEPT ![i].pc = "done"]
    /\ exitCode' = 0
    /\ events' = events \o <<Event("redis_disconnect_done", i), Event("exit0", i)>>
    /\ UNCHANGED <<configVars, storeVars, mainPc, server, conns, lastExchange, authVars>>

\* a catch block that logs the error and exits with code 0
Shutdown_catch_ExitZero(i) ==
    /\ exitCode = Running
    /\ i \in 1..Len(shutdowns)
    /\ shutdowns[i].pc \in {"db_disconnect", "redis_disconnect"}
    /\ frame[CloseCallback(i)].pc = "rejected"
    /\ shutdowns' = [shutdowns EXCEPT ![i].pc = "failed"]
    /\ ProcessExit(0, i)
    /\ UNCHANGED <<configVars, storeVars, mainPc, server, conns, lastExchange, authVars>>

\* the close callback: the catch block: log, process.exit(1)
Shutdown_catch(i) ==
    /\ exitCode = Running
    /\ i \in 1..Len(shutdowns)
    /\ shutdowns[i].pc \in {"db_disconnect", "redis_disconnect"}
    /\ frame[CloseCallback(i)].pc = "rejected"
    /\ shutdowns' = [shutdowns EXCEPT ![i].pc = "failed"]
    /\ ProcessExit(1, i)
    /\ UNCHANGED <<configVars, storeVars, mainPc, server, conns, lastExchange, authVars>>

\* a timer callback that logs and returns
ForcedShutdown_LogOnly(i) ==
    /\ exitCode = Running
    /\ i \in 1..Len(shutdowns)
    /\ shutdowns[i].timer
    /\ shutdowns' = [shutdowns EXCEPT ![i].timer = FALSE]
    /\ events' = Append(events, Event("forced", i))
    /\ UNCHANGED <<configVars, storeVars, mainPc, exitCode, server, conns, lastExchange, authVars>>

\* the 10 s timer of the i-th gracefulShutdown fires: log, process.exit(1)
ForcedShutdown(i) ==
    /\ exitCode = Running
    /\ i \in 1..Len(shutdowns)
    /\ shutdowns[i].timer
    /\ shutdowns' = [shutdowns EXCEPT ![i].timer = FALSE]
    /\ ProcessExit(1, i)
    /\ UNCHANGED <<configVars, storeVars, mainPc, server, conns, lastExchange, authVars>>

\* the values the environment gives a string variable
TextValues(v) ==
    CASE v = "NODE_ENV" -> {"", "production", "development", "test"}
      [] v = "JWT_SECRET" -> {"", JwtPlaceholder, "s3cr3t"}
      [] v = "DB_PASSWORD" -> {"", "postgres", "hunter2"}
      [] v = "CORS_CREDENTIALS" -> {"", "true", "false", "yes"}
      [] OTHER -> {"", "custom"}

CriticalVars == {"NODE_ENV", "JWT_SECRET", "DB_PASSWORD"}

\* what the environment may hold for one of the variables the validation reads
CriticalChoices(v) ==
    {[set |-> FALSE, val |-> ""]} \cup {[set |-> TRUE, val |-> t] : t \in TextValues(v)}

\* one further variable of the environment, set to a value (or none)
Probes ==
    {[var |-> "none", text |-> "", num |-> <<>>]}
    \cup UNION {{[var |-> v, text |-> t, num |-> <<>>] : t \in TextValues(v)} :
                    v \in (TextVars \cup BoolVars) \ CriticalVars}
    \cup {[var |-> v, text |-> "", num |-> n] : v \in NumVars, n \in SeqsUpTo(EnvChars, MaxEnvLen)}

\* process.env (after dotenv.config) before config/index.ts is evaluated: the
\* three variables the validation reads are free, and one further variable is
\* set (each field of config reads its own variable only)
EnvOf(ne, js, dp, p) ==
    [set  |-> {v \in CriticalVars :
                   (CASE v = "NODE_ENV" -> ne [] v = "JWT_SECRET" -> js [] OTHER -> dp).set}
              \cup (IF p.var = "none" THEN {} ELSE {p.var}),
     text |-> [v \in TextVars \cup BoolVars |->
                   CASE v = "NODE_ENV" -> ne.val
                     [] v = "JWT_SECRET" -> js.val
                     [] v = "DB_PASSWORD" -> dp.val
                     [] OTHER -> IF v = p.var THEN p.text ELSE ""],
     num  |-> [v \in NumVars |-> IF v = p.var THEN p.num ELSE <<>>]]

(***************************************************************************)
(* Session Manager (design: create, validate, renew, destroy, sweep).      *)
(* The session records live in the shared store; a service instance reads  *)
(* a record and writes it back with a compare-and-set.                     *)
(***************************************************************************)
\* config.session.timeoutMinutes
idleTimeout == config["SESSION_TIMEOUT_MINUTES"].val
\* config.session.maxDurationHours, in minutes
maxDuration == config["SESSION_MAX_DURATION_HOURS"].val * 60

Tokens == {"t1", "t2"}
Workers == {"w1", "w2"}

NoSession == [createdAt |-> -1, expiresAt |-> -1]
NoSnap == [t \in Tokens |-> NoSession]
IdleOp == [op |-> "none", token |-> "none", snap |-> NoSnap, pc |-> "idle", ok |-> FALSE]

\* the result an operation leaves with its caller
Done(op, tok, ok) == [op |-> op, token |-> tok, snap |-> NoSnap, pc |-> "done", ok |-> ok]

Min(a, b) == IF a <= b THEN a ELSE b

\* a validation that looks at the idle timeout only
Valid_IdleOnly(s, t) == s # NoSession /\ t <= s.expiresAt

\* validate: "fails if token unknown, if now > expiresAt, or if
\* now > createdAt + maxDuration"
Valid(s, t) ==
    /\ s # NoSession
    /\ ~(t > s.expiresAt)
    /\ ~(t > s.createdAt + maxDuration)

\* a renewal that forgets the absolute ceiling
Renewed_NoCap(s, t) == [s EXCEPT !.expiresAt = t + idleTimeout]

\* renew: "extends expiresAt = now + idleTimeout but never past the absolute
\* ceiling"
Renewed(s, t) == [s EXCEPT !.expiresAt = Min(t + idleTimeout, s.createdAt + maxDuration)]

\* time passes
Tick ==
    /\ now < MaxNow
    /\ now' = now + ClockStep
    /\ UNCHANGED <<sessions, ops, users, authz>>

\* create(userId, metadata): a token not in use, expiresAt = now + idleTimeout,
\* createdAt = now
Session_create(w, tok) ==
    /\ ops[w].pc \in {"idle", "done"}
    /\ sessions[tok] = NoSession
    /\ sessions' = [sessions EXCEPT ![tok] = [createdAt |-> now, expiresAt |-> now + idleTimeout]]
    /\ ops' = [ops EXCEPT ![w] = Done("create", tok, TRUE)]
    /\ UNCHANGED <<now, users, authz>>

\* a removal that reports an unknown token as an error
Session_destroy_Strict(w, tok) ==
    /\ ops[w].pc \in {"idle", "done"}
    /\ sessions' = [sessions EXCEPT ![tok] = NoSession]
    /\ ops' = [ops EXCEPT ![w] = Done("destroy", tok, sessions[tok] # NoSession)]
    /\ UNCHANGED <<now, users, authz>>

\* destroy(token): idempotent removal
Session_destroy(w, tok) ==
    /\ ops[w].pc \in {"idle", "done"}
    /\ sessions' = [sessions EXCEPT ![tok] = NoSession]
    /\ ops' = [ops EXCEPT ![w] = Done("destroy", tok, TRUE)]
    /\ UNCHANGED <<now, users, authz>>

\* validate(token), renew(token) and sweep() begin by reading the store
Session_begin(w, op, tok) ==
    /\ ops[w].pc \in {"idle", "done"}
    /\ op \in {"validate", "renew", "sweep"}
    /\ ops' = [ops EXCEPT ![w] = [op |-> op, token |-> tok, snap |-> sessions,
                                  pc |-> "read", ok |-> FALSE]]
    /\ UNCHANGED <<now, sessions, users, authz>>

\* what the operation o writes for token t, given the record it has read
Written(o, t) ==
    LET s == o.snap[t] IN
    CASE o.op = "validate" -> s
      [] o.op = "renew" -> IF Valid(s, now) THEN Renewed(s, now) ELSE s
      [] OTHER -> IF s # NoSession /\ ~Valid(s, now) THEN NoSession ELSE s

\* an instance that writes what it has computed without comparing
Session_commit_NoCompare(w) ==
    /\ ops[w].pc = "read"
    /\ LET o == ops[w] IN
       IF o.op = "sweep"
       THEN /\ sessions' = [t \in Tokens |->
                              IF Written(o, t) # o.snap[t] THEN Written(o, t) ELSE sessions[t]]
            /\ ops' = [ops EXCEPT ![w] = Done("sweep", o.token, TRUE)]
       ELSE /\ sessions' = [sessions EXCEPT ![o.token] =
                              IF o.snap[o.token] # NoSession THEN Written(o, o.token) ELSE @]
            /\ ops' = [ops EXCEPT ![w] = Done(o.op, o.token, Valid(o.snap[o.token], now))]
    /\ UNCHANGED <<now, users, authz>>

\* validate, renew and sweep end with a compare-and-set per token: the write
\* happens only if the record is still the one that was read; validate and
\* renew read again otherwise, sweep leaves the token to a later pass
Session_commit(w) ==
    /\ ops[w].pc = "read"
    /\ LET o == ops[w] IN
       IF o.op = "sweep"
       THEN /\ sessions' = [t \in Tokens |->
                              IF sessions[t] = o.snap[t] THEN Written(o, t) ELSE sessions[t]]
            /\ ops' = [ops EXCEPT ![w] = Done("sweep", o.token, TRUE)]
       ELSE IF sessions[o.token] # o.snap[o.token]
            THEN /\ ops' = [ops EXCEPT ![w].snap = sessions]
                 /\ sessions' = sessions
            ELSE /\ sessions' = [sessions EXCEPT ![o.token] = Written(o, o.token)]
                 /\ ops' = [ops EXCEPT ![w] = Done(o.op, o.token, Valid(o.snap[o.token], now))]
    /\ UNCHANGED <<now, users, authz>>

(***************************************************************************)
(* Authentication Service (design: login, logout)                          *)
(***************************************************************************)
\* config.security.maxLoginAttempts
maxLoginAttempts == config["MAX_LOGIN_ATTEMPTS"].val
\* config.security.lockoutDurationMinutes
lockoutDuration == config["LOCKOUT_DURATION_MINUTES"].val
\* config.security.authRateLimitWindowMinutes: the window failures are counted in
attemptWindow == config["AUTH_RATE_LIMIT_WINDOW_MINUTES"].val

Users == {"u1"}
Emails == Users \cup {"nobody"}

\* lockedUntil and windowStart are -1 for null
NewUser == [failedLoginAttempts |-> 0, windowStart |-> -1, lockedUntil |-> -1, result |-> "none"]

Locked(r, t) == r.lockedUntil # -1 /\ t < r.lockedUntil

\* what login leaves with its caller: the session token on success
LoginDone(email, correct, tok, ok) ==
    [op |-> "login", token |-> tok, snap |-> NoSnap, pc |-> "done", ok |-> ok,
     email |-> email, correct |-> correct]

\* a lock set only once the threshold is exceeded
LocksAt_Exceeding(count) == count > maxLoginAttempts

\* the failure that brings the count to the threshold sets lockedUntil
LocksAt(count) == count >= maxLoginAttempts

\* the user record after a failed attempt at time t
Failed(r, t) ==
    LET base     == IF r.lockedUntil # -1 THEN NewUser ELSE r
        inWindow == base.windowStart # -1 /\ t - base.windowStart <= attemptWindow
        count    == IF inWindow THEN base.failedLoginAttempts + 1 ELSE 1
    IN  [failedLoginAttempts |-> count,
         windowStart |-> IF inWindow THEN base.windowStart ELSE t,
         lockedUntil |-> IF LocksAt(count) THEN t + lockoutDuration ELSE -1,
         result |-> "invalid"]

\* login(email, password): an unknown email and a wrong password fail alike;
\* a locked account rejects whatever the password; a success resets the
\* counters and has the Session Manager create a session; a failure counts
Auth_login(w, email, correct, tok) ==
    /\ ops[w].pc \in {"idle", "done"}
    /\ IF email \notin Users
       THEN /\ ops' = [ops EXCEPT ![w] = LoginDone(email, correct, "none", FALSE)]
            /\ UNCHANGED <<sessions, users>>
       ELSE IF Locked(users[email], now)
       THEN /\ users' = [users EXCEPT ![email].result = "locked"]
            /\ ops' = [ops EXCEPT ![w] = LoginDone(email, correct, "none", FALSE)]
            /\ UNCHANGED sessions
       ELSE IF correct
       THEN /\ sessions[tok] = NoSession
            /\ sessions' = [sessions EXCEPT ![tok] =
                              [createdAt |-> now, expiresAt |-> now + idleTimeout]]
            /\ users' = [users EXCEPT ![email] = [NewUser EXCEPT !.result = "ok"]]
            /\ ops' = [ops EXCEPT ![w] = LoginDone(email, correct, tok, TRUE)]
       ELSE /\ users' = [users EXCEPT ![email] = Failed(@, now)]
            /\ ops' = [ops EXCEPT ![w] = LoginDone(email, correct, "none", FALSE)]
            /\ UNCHANGED sessions
    /\ UNCHANGED <<now, authz>>

\* logout(token): delegates to destroy
Auth_logout(w, tok) == Session_destroy(w, tok)

(***************************************************************************)
(* Authorization Service (design: checkPermission and its cache)           *)
(***************************************************************************)
Roles == {"R1", "R2"}
Perms == {"agenda-builder:meeting:create", "agenda-builder:meeting:delete"}

NoCache == [version |-> -1, perms |-> {}]
NoAnswer == [perm |-> "none", allowed |-> FALSE]

\* no role assigned, no permission granted to a role
NoGrants ==
    [assigned |-> {}, granted |-> [r \in Roles |-> {}], version |-> 0,
     cache |-> NoCache, answer |-> NoAnswer]

\* a role or role-permission mutation: the role-set version moves on and the
\* cached lookup of the user is dropped
Mutated(a) == [a EXCEPT !.version = @ + 1, !.cache = NoCache]

\* a role is assigned to the user
Authz_assignRole(r) ==
    /\ authz.version < MaxVersion
    /\ r \notin authz.assigned
    /\ authz' = Mutated([authz EXCEPT !.assigned = @ \cup {r}])
    /\ UNCHANGED <<now, sessions, ops, users>>

\* a removal that leaves the cache and its key alone
Authz_revokeRole_Stale(r) ==
    /\ authz.version < MaxVersion
    /\ r \in authz.assigned
    /\ authz' = [authz EXCEPT !.assigned = @ \ {r}]
    /\ UNCHANGED <<now, sessions, ops, users>>

\* a role is taken from the user
Authz_revokeRole(r) ==
    /\ authz.version < MaxVersion
    /\ r \in authz.assigned
    /\ authz' = Mutated([authz EXCEPT !.assigned = @ \ {r}])
    /\ UNCHANGED <<now, sessions, ops, users>>

\* a permission is added to a role or taken from it
Authz_setRolePermission(r, p) ==
    /\ authz.version < MaxVersion
    /\ authz' = Mutated([authz EXCEPT !.granted[r] =
                            IF p \in @ THEN @ \ {p} ELSE @ \cup {p}])
    /\ UNCHANGED <<now, sessions, ops, users>>

\* the permissions of the user: the union over the roles assigned
UserPermissions(a) == UNION {a.granted[r] : r \in a.assigned}

\* checkPermission(userId, module, resource, action): the lookup cached under
\* (userId, roleSetVersion) is used when there is one
Authz_checkPermission(p) ==
    /\ LET perms == IF authz.cache.version = authz.version
                    THEN authz.cache.perms
                    ELSE UserPermissions(authz)
       IN  authz' = [authz EXCEPT !.cache = [version |-> authz.version, perms |-> perms],
                                  !.answer = [perm |-> p, allowed |-> p \in perms]]
    /\ UNCHANGED <<now, sessions, ops, users>>

\* the environment with the numeric variable v set to the digits ds
WithNum(env, v, ds) == [env EXCEPT !.set = @ \cup {v}, !.num[v] = ds]

(***************************************************************************)
(* Specifications                                                          *)
(***************************************************************************)
NoExchange == [served |-> FALSE]

NoSetting == [set |-> FALSE, val |-> ""]
NoProbe == [var |-> "none", text |-> "", num |-> <<>>]

\* nothing connected, nothing started
Constructed ==
    /\ pool = 0
    /\ pools = <<>>
    /\ client = 0
    /\ clients = <<>>
    /\ frame = [t \in Threads |-> IdleFrame]
    /\ silent = {}
    /\ exitCode = Running
    /\ conns = 0
    /\ shutdowns = <<>>
    /\ events = <<>>
    /\ lastExchange = NoExchange
    /\ now = 0
    /\ sessions = NoSnap
    /\ ops = [w \in Workers |-> IdleOp]
    /\ users = [u \in Users |-> NewUser]
    /\ authz = NoGrants

\* ---- SpecConfig: config/index.ts is evaluated in any environment
ConfigInit ==
    /\ \E ne \in CriticalChoices("NODE_ENV"), js \in CriticalChoices("JWT_SECRET"),
          dp \in CriticalChoices("DB_PASSWORD"), p \in Probes :
           processEnv = EnvOf(ne, js, dp, p)
    /\ config = Unloaded
    /\ configState = "unloaded"
    /\ mainPc = "import"
    /\ server = "none"
    /\ Constructed

ConfigNext == LoadConfig /\ UNCHANGED <<storeVars, procVars, lastExchange, authVars>>

SpecConfig == ConfigInit /\ [][ConfigNext]_vars

\* ---- Spec: the process started by `startServer()`.  The requests the
\* listening server answers are in SpecApp: app.ts reads and writes nothing
\* of the process but config.
Secret(v) == [set |-> TRUE, val |-> v]

\* the environments a process is started in: development by default,
\* production with and without its secrets
ProgramEnvs ==
    {EnvOf(NoSetting, NoSetting, NoSetting, NoProbe),
     EnvOf(Secret("production"), Secret("s3cr3t"), Secret("hunter2"), NoProbe),
     EnvOf(Secret("production"), NoSetting, Secret("hunter2"), NoProbe)}

ProgramThreads == {Main} \cup {CloseCallback(i) : i \in 1..MaxShutdowns}

Init ==
    /\ processEnv \in ProgramEnvs
    /\ config = Unloaded
    /\ configState = "unloaded"
    /\ mainPc = "import"
    /\ server = "none"
    /\ Constructed

\* `import config from './config'`
Import_config ==
    /\ exitCode = Running
    /\ mainPc = "import"
    /\ LoadConfig
    /\ UNCHANGED <<storeVars, procVars, lastExchange, authVars>>

\* the store answers (or a timer of the pool fires) and connect() goes on
ConnectStep(t) ==
    /\ exitCode = Running
    /\ \/ Database_connect_acquired(t)
       \/ Database_connect_tested(t)
       \/ Database_connect_catch(t)
       \/ RedisClient_connect_opened(t)
       \/ RedisClient_connect_ready(t)
       \/ RedisClient_connect_catch(t)
    /\ UNCHANGED <<configVars, procVars, lastExchange, authVars>>

\* the store answers and disconnect() goes on
DisconnectStep(t) ==
    /\ exitCode = Running
    /\ \/ Database_disconnect_ended(t)
       \/ RedisClient_disconnect_closed(t)
       \/ RedisClient_disconnect_failed(t)
    /\ UNCHANGED <<configVars, procVars, lastExchange, authVars>>

\* the store answers and getClient, query or a Redis command goes on
UseStep(t) ==
    /\ exitCode = Running
    /\ \/ Database_getClient_settled(t)
       \/ Database_query_sent(t)
       \/ Database_query_settled(t)
       \/ RedisClient_command_settled(t)
    /\ UNCHANGED <<configVars, procVars, lastExchange, authVars>>

StoreEvent ==
    /\ exitCode = Running
    /\ \E s \in Stores : StoreFalls(s) \/ StoreRecovers(s)
    /\ UNCHANGED <<configVars, procVars, lastExchange, authVars>>

Next ==
    \/ Import_config
    \/ Import_failed
    \/ Initialize_connectDatabase
    \/ Initialize_connectRedis
    \/ Initialize_done
    \/ Initialize_catch
    \/ StartServer_listen
    \/ ConnOpen
    \/ ConnClose
    \/ \E signal \in Signals : GracefulShutdown(signal)
    \/ \E i \in 1..MaxShutdowns : ServerClosed(i)
    \/ \E i \in 1..MaxShutdowns : Shutdown_disconnectRedis(i)
    \/ \E i \in 1..MaxShutdowns : Shutdown_exit(i)
    \/ \E i \in 1..MaxShutdowns : Shutdown_catch(i)
    \/ \E i \in 1..MaxShutdowns : ForcedShutdown(i)
    \/ \E t \in ProgramThreads : ConnectStep(t)
    \/ \E t \in ProgramThreads : DisconnectStep(t)
    \/ StoreEvent

Spec == Init /\ [][Next]_vars

\* ---- SpecApp: the app of a serving process answers requests while the
\* code around it connects and disconnects the stores
ServingInit ==
    /\ config = BuildConfig(processEnv)
    /\ configState = "loaded"
    /\ mainPc = "serving"
    /\ server = "listening"
    /\ Constructed

AppInit ==
    /\ processEnv \in {e \in ProgramEnvs : ConfigError(BuildConfig(e)) = "none"}
                        \cup {EnvOf(Secret("test"), NoSetting, NoSetting, NoProbe)}
    /\ ServingInit

\* the code around the app opens or closes the connection to a store
Caller_lifecycle(t) ==
    /\ exitCode = Running
    /\ Settled(t)
    /\ \/ Database_connect(t)
       \/ Database_disconnect(t)
       \/ RedisClient_connect(t)
       \/ RedisClient_disconnect(t)
    /\ UNCHANGED <<configVars, procVars, lastExchange, authVars>>

AppNext ==
    \/ ConnOpen
    \/ ConnClose
    \/ \E req \in Requests : HandleRequest(req)
    \/ ResponseSent
    \/ \E t \in Callers : Caller_lifecycle(t)
    \/ \E t \in Callers : ConnectStep(t)
    \/ \E t \in Callers : DisconnectStep(t)

SpecApp == AppInit /\ [][AppNext]_vars

\* ---- SpecStore: the wrappers as components of a serving process, called
\* by any code that imports them
Expirations == {-1, 0, 60}

\* a caller that holds a client of the pool gives it back: client.release()
Caller_release(t) ==
    /\ frame[t].op = "db.getClient"
    /\ frame[t].pc = "resolved"
    /\ pools' = Release(frame[t].obj)
    /\ frame' = [frame EXCEPT ![t] = IdleFrame]
    /\ UNCHANGED <<pool, client, clients, silent>>
    /\ UNCHANGED <<configVars, procVars, lastExchange, authVars>>

\* a caller that awaits nothing calls a method of a wrapper
Caller_call(t) ==
    /\ exitCode = Running
    /\ Settled(t)
    /\ ~(frame[t].op = "db.getClient" /\ frame[t].pc = "resolved")
    /\ \/ Database_connect(t)
       \/ Database_getClient(t)
       \/ Database_query(t)
       \/ Database_getPool(t)
       \/ Database_disconnect(t)
       \/ RedisClient_connect(t)
       \/ RedisClient_getClient(t)
       \/ \E exp \in Expirations : RedisClient_set(t, exp)
       \/ RedisClient_get(t)
       \/ RedisClient_del(t)
       \/ RedisClient_exists(t)
       \/ RedisClient_expire(t, 60)
       \/ RedisClient_disconnect(t)
    /\ UNCHANGED <<configVars, procVars, lastExchange, authVars>>

StoreInit ==
    /\ processEnv = EnvOf(NoSetting, NoSetting, NoSetting, NoProbe)
    /\ ServingInit

StoreNext ==
    \/ \E t \in Callers : Caller_call(t)
    \/ \E t \in Callers : Caller_release(t)
    \/ \E t \in Callers : ConnectStep(t)
    \/ \E t \in Callers : DisconnectStep(t)
    \/ \E t \in Callers : UseStep(t)
    \/ StoreEvent

SpecStore == StoreInit /\ [][StoreNext]_vars

\* ---- FairStore: the event loop runs a continuation whose promise has
\* settled, and a timer that is due; nothing obliges a store to answer
FairStore ==
    /\ SpecStore
    /\ \A t \in Callers :
        /\ WF_vars(ConnectStep(t))
        /\ WF_vars(DisconnectStep(t))
        /\ WF_vars(UseStep(t))

\* ---- FairSpec: the process with its event loop running: a timer that is
\* armed fires when it is due.  Nothing obliges a connection to end or a
\* store to answer.
FairSpec ==
    /\ Spec
    /\ \A i \in 1..MaxShutdowns : WF_vars(ForcedShutdown(i))

\* ---- SpecDb: two callers share the Database wrapper of a serving process
\* a caller that awaits nothing calls a method of Database
Db_call(t) ==
    /\ exitCode = Running
    /\ Settled(t)
    /\ ~(frame[t].op = "db.getClient" /\ frame[t].pc = "resolved")
    /\ \/ Database_connect(t)
       \/ Database_getClient(t)
       \/ Database_query(t)
       \/ Database_disconnect(t)
    /\ UNCHANGED <<configVars, procVars, lastExchange, authVars>>

DbNext ==
    \/ \E t \in DbCallers : Db_call(t)
    \/ \E t \in DbCallers : Caller_release(t)
    \/ \E t \in DbCallers : ConnectStep(t)
    \/ \E t \in DbCallers : DisconnectStep(t)
    \/ \E t \in DbCallers : UseStep(t)

SpecDb == StoreInit /\ [][DbNext]_vars

\* ---- SpecSession: one service instance works on the session store
DefaultEnv == EnvOf(NoSetting, NoSetting, NoSetting, NoProbe)

\* idle timeouts of 10, 30 (the default) and 70 minutes under a maximum
\* duration of one hour
SessionEnvs ==
    {WithNum(WithNum(DefaultEnv, "SESSION_MAX_DURATION_HOURS", <<"1">>),
             "SESSION_TIMEOUT_MINUTES", tm) : tm \in {<<"1", "0">>, <<>>, <<"7", "0">>}}

SessionInit ==
    /\ processEnv \in SessionEnvs
    /\ ServingInit

\* the instance w starts or completes an operation of the Session Manager
Session_call(w) ==
    /\ \/ \E tok \in Tokens : Session_create(w, tok)
       \/ \E tok \in Tokens : Session_destroy(w, tok)
       \/ \E tok \in Tokens : Session_begin(w, "validate", tok)
       \/ \E tok \in Tokens : Session_begin(w, "renew", tok)
       \/ Session_begin(w, "sweep", "none")
    /\ UNCHANGED <<configVars, storeVars, procVars, lastExchange>>

Session_complete(w) ==
    /\ Session_commit(w)
    /\ UNCHANGED <<configVars, storeVars, procVars, lastExchange>>

Clock ==
    /\ Tick
    /\ UNCHANGED <<configVars, storeVars, procVars, lastExchange>>

SessionNext ==
    \/ Session_call("w1")
    \/ Session_complete("w1")
    \/ Clock

SpecSession == SessionInit /\ [][SessionNext]_vars

\* ---- SpecRace: two instances and the sweep work on one session at the
\* same time
RaceInit ==
    /\ processEnv \in SessionEnvs
    /\ config = BuildConfig(processEnv)
    /\ configState = "loaded"
    /\ mainPc = "serving"
    /\ server = "listening"
    /\ pool = 0 /\ pools = <<>> /\ client = 0 /\ clients = <<>>
    /\ frame = [t \in Threads |-> IdleFrame]
    /\ silent = {}
    /\ exitCode = Running /\ conns = 0 /\ shutdowns = <<>> /\ events = <<>>
    /\ lastExchange = NoExchange
    /\ now = 0
    /\ sessions = [NoSnap EXCEPT !["t1"] = [createdAt |-> 0, expiresAt |-> idleTimeout]]
    /\ ops = [w \in Workers |-> IdleOp]
    /\ users = [u \in Users |-> NewUser]
    /\ authz = NoGrants

Race_begin(w) ==
    /\ \/ Session_begin(w, "validate", "t1")
       \/ Session_begin(w, "renew", "t1")
       \/ Session_begin(w, "sweep", "none")
    /\ UNCHANGED <<configVars, storeVars, procVars, lastExchange>>

RaceNext ==
    \/ \E w \in Workers : Race_begin(w)
    \/ \E w \in Workers : Session_complete(w)
    \/ Clock

SpecRace == RaceInit /\ [][RaceNext]_vars

\* ---- SpecLogin: logins and logouts of one user as time passes
LoginEnvs ==
    {WithNum(WithNum(WithNum(DefaultEnv, "MAX_LOGIN_ATTEMPTS", n),
                     "LOCKOUT_DURATION_MINUTES", <<"2", "0">>),
             "AUTH_RATE_LIMIT_WINDOW_MINUTES", <<"1", "0">>) : n \in {<<"2">>, <<"3">>}}

LoginInit ==
    /\ processEnv \in LoginEnvs
    /\ ServingInit

Login ==
    /\ \E email \in Emails, correct \in BOOLEAN, tok \in Tokens :
            Auth_login("w1", email, correct, tok)
    /\ UNCHANGED <<configVars, storeVars, procVars, lastExchange>>

Logout ==
    /\ \E tok \in Tokens : Auth_logout("w1", tok)
    /\ UNCHANGED <<configVars, storeVars, procVars, lastExchange>>

LoginNext ==
    \/ Login
    \/ Logout
    \/ Clock

SpecLogin == LoginInit /\ [][LoginNext]_vars

\* ---- SpecAuthz: roles and permissions change between permission checks
Authz_mutation ==
    /\ \/ \E r \in Roles : Authz_assignRole(r)
       \/ \E r \in Roles : Authz_revokeRole(r)
       \/ \E r \in Roles, p \in Perms : Authz_setRolePermission(r, p)
    /\ UNCHANGED <<configVars, storeVars, procVars, lastExchange>>

Authz_check ==
    /\ \E p \in Perms : Authz_checkPermission(p)
    /\ UNCHANGED <<configVars, storeVars, procVars, lastExchange>>

AuthzNext ==
    \/ Authz_mutation
    \/ Authz_check

SpecAuthz == StoreInit /\ [][AuthzNext]_vars

(***************************************************************************)
(* Properties                                                              *)
(***************************************************************************)
\* the place of the first event <<name, i>> in events, 0 when there is none
Pos(name, i) ==
    IF \E k \in DOMAIN events : events[k] = Event(name, i)
    THEN CHOOSE k \in DOMAIN events :
            /\ events[k] = Event(name, i)
            /\ \A j \in 1..(k - 1) : events[j] # Event(name, i)
    ELSE 0

\* e1 and e2 of the i-th shutdown (0: of startup) have both happened, e1 first
Before(e1, e2, i) == 0 < Pos(e1, i) /\ Pos(e1, i) < Pos(e2, i)

\* C1: startServer() listens only after database.connect() and then
\* redis.connect() have both resolved, in that order; when either rejects the
\* process exits with code 1 (no other code) and the server never listens.
C1_StartupOrder ==
    /\ server # "none" =>
        /\ Before("db_connected", "redis_connected", 0)
        /\ Before("redis_connected", "listen", 0)
        /\ frame[Main].op = "redis.connect" /\ frame[Main].pc = "resolved"
    /\ Pos("redis_connected", 0) > 0 => Before("db_connected", "redis_connected", 0)
    /\ (mainPc \in {"init_db", "init_redis"} /\ frame[Main].pc = "rejected") =>
        server = "none" /\ exitCode = Running
    /\ mainPc = "failed" => exitCode = 1 /\ server = "none" /\ Pos("listen", 0) = 0
    /\ (frame[Main].pc = "rejected" /\ mainPc \notin {"init_db", "init_redis"}) =>
        mainPc = "failed"

\* redis.connect() rejected after database.connect() had resolved, and the
\* process has exited with code 1
C1_Witness ==
    /\ mainPc = "failed"
    /\ frame[Main].op = "redis.connect"
    /\ frame[Main].pc = "rejected"
    /\ Pos("db_connected", 0) > 0
    /\ exitCode = 1

\* C2: in a graceful shutdown the events happen in this order: the server's
\* close callback fires, database.disconnect() completes, redis.disconnect()
\* completes, the process exits with code 0; no disconnect starts before the
\* close callback of its shutdown has fired, and redis.disconnect() does not
\* start before database.disconnect() has completed.
C2_ShutdownOrder ==
    /\ \A k \in DOMAIN events :
        LET i == events[k][2] IN
        /\ events[k][1] \in {"db_disconnect_start", "redis_disconnect_start"} =>
            /\ Pos("server_closed", i) \in 1..k
            /\ shutdowns[i].signal \in Signals
        /\ events[k][1] = "redis_disconnect_start" =>
            /\ Before("db_disconnect_start", "db_disconnect_done", i)
            /\ Pos("db_disconnect_done", i) \in 1..k
        /\ events[k][1] = "exit0" =>
            /\ Before("server_closed", "db_disconnect_done", i)
            /\ Before("db_disconnect_done", "redis_disconnect_done", i)
            /\ Before("redis_disconnect_done", "exit0", i)
    /\ exitCode = 0 => \E i \in DOMAIN shutdowns : Pos("exit0", i) = Len(events)

\* a SIGTERM received by the listening server has led to exit code 0
C2_Witness ==
    /\ exitCode = 0
    /\ shutdowns[1].signal = "SIGTERM"
    /\ Pos("exit0", 1) > 0
    /\ pools[1].ended
    /\ clients[1].state = "closed"

\* the request answered last, its response and what was logged for it
Req == lastExchange.ctx.req
Res == lastExchange.ctx.res
Served == lastExchange.served

IsGetHealth(req) == req.method = "GET" /\ req.path = "/health"
BodyParses(req) == req.body \notin {"malformed_json", "malformed_urlencoded"}

\* the step in which the app answers a request
Answers == ~lastExchange.served /\ lastExchange'.served

HealthAnswer(res) ==
    /\ res.sent
    /\ res.status = 200
    /\ res.body.kind = "health"
    /\ res.body.status = "ok"
    /\ res.body.timestamp
    /\ res.body.uptime

\* C3 as stated: every GET /health request is answered with 200 and the
\* health body.
C3_Original == (Served /\ IsGetHealth(Req)) => HealthAnswer(Res)

\* C3: while the server listens, whatever the state of the pool and of the
\* Redis client, a GET /health request whose body (if it has one) parses is
\* answered with 200 and a body holding status 'ok', a timestamp and the
\* uptime, and answering it changes no connection state.
C3_Health ==
    [][(Answers /\ server = "listening" /\ IsGetHealth(lastExchange'.ctx.req)
            /\ BodyParses(lastExchange'.ctx.req)) =>
        /\ HealthAnswer(lastExchange'.ctx.res)
        /\ UNCHANGED storeVars]_vars

\* GET /health is answered with 200 after the pool was ended and the handle
\* set to null again, while a disconnect of the Redis client is under way
C3_Witness ==
    /\ Served
    /\ IsGetHealth(Req)
    /\ HealthAnswer(Res)
    /\ server = "listening"
    /\ pool = 0
    /\ Len(pools) > 0 /\ pools[1].ended
    /\ \E t \in Callers : frame[t].pc = "await_quit"

NotFoundAnswer(res) ==
    /\ res.sent
    /\ res.status = 404
    /\ res.body.kind = "error"
    /\ res.body.code = "NOT_FOUND"
    /\ res.body.message # ""
    /\ res.body.timestamp

Is2xx(res) == res.sent /\ res.status \in 200..299

\* C5 as stated: every request other than GET /health that raises no
\* middleware error is answered with the 404 envelope, and only GET /health
\* is answered with a 2xx status.
C5_Original ==
    Served =>
        /\ (~IsGetHealth(Req) /\ lastExchange.ctx.err = NoError) => NotFoundAnswer(Res)
        /\ Is2xx(Res) => IsGetHealth(Req)

\* the requests Express hands to the handler registered with app.get('/health')
OnHealthRoute(req) ==
    /\ req.method \in {"GET", "HEAD"}
    /\ req.path \in {"/health", "/HEALTH/"}

\* C5: every request that is not an OPTIONS request, is not a GET or HEAD
\* request for the health route and raises no middleware error is answered
\* with the 404 envelope; the only 2xx responses are the 200 of the health
\* route and the 204 the CORS middleware gives an OPTIONS request.
C5_OnlyHealthRoute ==
    Served =>
        /\ (Req.method # "OPTIONS" /\ ~OnHealthRoute(Req) /\ lastExchange.ctx.err = NoError)
                => NotFoundAnswer(Res)
        /\ Is2xx(Res) =>
            \/ OnHealthRoute(Req) /\ Res.status = 200
            \/ Req.method = "OPTIONS" /\ Res.status = 204

\* a POST to a path the documents promise is answered with the 404 envelope
C5_Witness ==
    /\ Served
    /\ Req.method = "POST"
    /\ Req.path = "/api/auth/login"
    /\ Req.body = "json"
    /\ NotFoundAnswer(Res)

\* an error reached the global error handler
ReachedErrorHandler == Served /\ lastExchange.ctx.err # NoError

\* the log entry of the global error handler
ErrorLogged ==
    \E k \in DOMAIN lastExchange.ctx.log :
        LET e == lastExchange.ctx.log[k] IN
        /\ e.level = "error"
        /\ e.error = lastExchange.ctx.err.message
        /\ e.stack
        /\ e.path = Req.path
        /\ e.method = Req.method

ErrorEnvelope(res) ==
    /\ res.sent
    /\ res.status = 500
    /\ res.body.kind = "error"
    /\ res.body.code = "INTERNAL_SERVER_ERROR"
    /\ res.body.timestamp

C7_Malformed400 ==
    (Served /\ ~BodyParses(Req) /\ lastExchange.ctx.err # NoError) => Res.status = 400

\* what the environment says about the variables the validation reads
InProduction == "NODE_ENV" \in processEnv.set /\ processEnv.text["NODE_ENV"] = "production"
JwtSecretGiven ==
    /\ "JWT_SECRET" \in processEnv.set
    /\ processEnv.text["JWT_SECRET"] \notin {"", JwtPlaceholder}
DbPasswordGiven ==
    /\ "DB_PASSWORD" \in processEnv.set
    /\ processEnv.text["DB_PASSWORD"] \notin {"", "postgres"}

\* C4: with NODE_ENV 'production' loading the configuration throws unless
\* JWT_SECRET is set, non-empty and not the placeholder and DB_PASSWORD is
\* set, non-empty and not 'postgres'; with any other NODE_ENV, or none, it
\* never throws.
C4_ProductionValidation ==
    configState # "unloaded" =>
        (configState = "threw" <=> (InProduction /\ ~(JwtSecretGiven /\ DbPasswordGiven)))

\* in production, with a proper JWT secret, the password 'postgres' makes
\* the load throw
C4_Witness ==
    /\ configState = "threw"
    /\ InProduction
    /\ JwtSecretGiven
    /\ "DB_PASSWORD" \in processEnv.set
    /\ processEnv.text["DB_PASSWORD"] = "postgres"

\* the defaults the documents give the numeric fields
DocumentedDefault ==
    [v \in NumVars |->
        CASE v = "PORT" -> 3000
          [] v = "DB_PORT" -> 5432
          [] v = "DB_POOL_MIN" -> 2
          [] v = "DB_POOL_MAX" -> 10
          [] v = "REDIS_PORT" -> 6379
          [] v = "REDIS_DB" -> 0
          [] v = "SESSION_TIMEOUT_MINUTES" -> 30
          [] v = "SESSION_WARNING_MINUTES" -> 5
          [] v = "SESSION_MAX_DURATION_HOURS" -> 12
          [] v = "BCRYPT_ROUNDS" -> 12
          [] v = "MAX_LOGIN_ATTEMPTS" -> 5
          [] v = "LOCKOUT_DURATION_MINUTES" -> 15
          [] v = "RATE_LIMIT_WINDOW_MINUTES" -> 1
          [] v = "RATE_LIMIT_MAX_REQUESTS" -> 100
          [] v = "AUTH_RATE_LIMIT_WINDOW_MINUTES" -> 15
          [] v = "AUTH_RATE_LIMIT_MAX_ATTEMPTS" -> 5]

\* s is the decimal numeral of the number x
Denotes(s, x) ==
    /\ s # <<>>
    /\ \A k \in DOMAIN s : s[k] \in Digits
    /\ ~x.nan
    /\ x.val = DecValue(s)

\* C10: every field of the loaded configuration holds the value of its
\* environment variable when that is set to a non-empty string, and the
\* documented default otherwise.
C10_EnvDriven ==
    configState = "loaded" =>
        /\ \A v \in NumVars :
            IF v \in processEnv.set /\ processEnv.num[v] # <<>>
            THEN Denotes(processEnv.num[v], config[v])
            ELSE config[v] = Num(DocumentedDefault[v])
        /\ \A v \in TextVars :
            IF v \in processEnv.set /\ processEnv.text[v] # ""
            THEN config[v] = processEnv.text[v]
            ELSE config[v] = TextDefault[v]

\* the wrapper method a frame is a call of talks to this store
StoreOf(f) == IF f.op \in {"db.connect", "db.getClient", "db.query", "db.disconnect"}
              THEN "db" ELSE "redis"

\* the frame awaits a reply of a store
InRoundTrip(f) == f.pc \notin {"idle", "resolved", "rejected"}

\* C8: a round trip of a wrapper method that gets no reply from its store
\* ends in a failure: the caller does not stay suspended for ever.
C8_RoundTripsEnd ==
    \A t \in Callers :
        (InRoundTrip(frame[t]) /\ StoreOf(frame[t]) \in silent)
            ~> (frame[t].pc = "rejected" \/ StoreOf(frame[t]) \notin silent)

GuardedDb == {"db.getClient", "db.query", "db.getPool"}
GuardedRedis == {"redis.getClient", "redis.set", "redis.get", "redis.del", "redis.exists",
                 "redis.expire"}

\* the step in which thread t calls a wrapper method
Calls(t) == Settled(t) /\ frame'[t] # frame[t] /\ frame'[t].op # "none"

\* C9: while the handle of a wrapper is null, getClient, query and getPool
\* of Database and getClient, set, get, del, exists and expire of
\* RedisClient fail with the wrapper's 'not initialized' error at once,
\* without a round trip to the store and without a change of the wrappers.
C9_NotInitialized ==
    [][\A t \in Callers :
        /\ (Calls(t) /\ pool = 0 /\ frame'[t].op \in GuardedDb) =>
            /\ frame'[t].pc = "rejected"
            /\ frame'[t].err = NotInitDb
            /\ UNCHANGED <<pool, pools, client, clients, silent>>
        /\ (Calls(t) /\ client = 0 /\ frame'[t].op \in GuardedRedis) =>
            /\ frame'[t].pc = "rejected"
            /\ frame'[t].err = NotInitRedis
            /\ UNCHANGED <<pool, pools, client, clients, silent>>]_vars

\* after connect() and a completed disconnect(), query() is refused
C9_Witness ==
    \E t \in Callers :
        /\ frame[t].op = "db.query"
        /\ frame[t].pc = "rejected"
        /\ frame[t].err = NotInitDb
        /\ pool = 0
        /\ Len(pools) > 0
        /\ pools[1].ended

\* the number of events called name
Count(name) == Cardinality({k \in DOMAIN events : events[k][1] = name})

\* the i-th gracefulShutdown has neither exited nor failed yet
GracefulPending(i) == shutdowns[i].pc \in {"wait_close", "db_disconnect", "redis_disconnect"}

\* C17: once gracefulShutdown has been invoked the process exits in every
\* execution, whether or not the close callback fires and the disconnects
\* resolve; and the step in which a forced-shutdown timer fires while the
\* graceful path has not exited ends the process with exit code 1.
C17_ForcedShutdown ==
    /\ (Len(shutdowns) > 0) ~> (exitCode # Running)
    /\ [][\A i \in 1..Len(shutdowns) :
            (shutdowns[i].timer /\ ~shutdowns'[i].timer) =>
                /\ exitCode = Running
                /\ exitCode' = 1
                /\ events' = Append(events, Event("exit1", i))]_vars

\* the timer ended the process while the server was still waiting for a
\* connection to end
C17_Witness ==
    /\ exitCode = 1
    /\ Len(shutdowns) > 0
    /\ ~shutdowns[1].timer
    /\ shutdowns[1].pc = "wait_close"
    /\ conns > 0
    /\ Pos("exit1", 1) > 0

\* C18: whatever the shutdown triggers, server.close(), database.disconnect()
\* and redis.disconnect() are each invoked at most once and at most one
\* forced-shutdown timer is armed.
C18_ShutdownOnce ==
    /\ Len(shutdowns) <= 1
    /\ Count("db_disconnect_start") <= 1
    /\ Count("redis_disconnect_start") <= 1
    /\ Cardinality({i \in DOMAIN shutdowns : shutdowns[i].timer}) <= 1

\* C19: when connect() rejects, the handle of the wrapper is left null, and
\* a handle is non-null only while a connect() that succeeded stands.
C19_HandleNullAfterFailure ==
    \A t \in Callers :
        /\ (frame[t].op = "db.connect" /\ frame[t].pc = "rejected") => pool = 0
        /\ (frame[t].op = "redis.connect" /\ frame[t].pc = "rejected") => client = 0

\* thread t dispatches a query() or a getClient() to the pool in this step
Dispatches(t) ==
    /\ frame'[t] # frame[t]
    /\ frame'[t].op \in {"db.query", "db.getClient"}
    /\ frame'[t].pc = "await_pool_connect"

\* C20: no query() or getClient() is dispatched to a pool on which end() has
\* been invoked (the call runs before end() or fails as 'not initialized'),
\* and of two overlapping disconnect() calls only one invokes pool.end().
C20_NoUseAfterEnd ==
    [][\A t \in DbCallers :
        /\ Dispatches(t) => ~pools[frame'[t].obj].ending
        /\ (frame'[t] # frame[t] /\ frame'[t].op = "db.disconnect") =>
                frame'[t].err # "end_twice"]_vars

\* the step in which instance w completes the operation op it has begun
Completes(w, op) == ops[w].pc = "read" /\ ops[w].op = op /\ ops'[w].pc = "done"

\* C11: validate(token) succeeds iff the token is known, now <= expiresAt and
\* now <= createdAt + maxDuration; it fails for an unknown token, for an
\* idle-expired session and for a session past the absolute ceiling.
C11_Validate ==
    [][\A w \in Workers :
        Completes(w, "validate") =>
            LET s == sessions[ops[w].token] IN
            ops'[w].ok = (/\ s # NoSession
                          /\ now <= s.expiresAt
                          /\ now <= s.createdAt + maxDuration)]_vars

\* a session whose expiresAt has not passed is refused past the ceiling
C11_Witness ==
    \E tok \in Tokens :
        /\ ops["w1"] = Done("validate", tok, FALSE)
        /\ sessions[tok] # NoSession
        /\ now <= sessions[tok].expiresAt
        /\ now > sessions[tok].createdAt + maxDuration

Attempt(u) ==
    /\ ops'["w1"].op = "login"
    /\ ops'["w1"].email = u
    /\ <<ops, users, sessions>>' # <<ops, users, sessions>>

\* C13: the failed login that brings failedLoginAttempts to maxLoginAttempts
\* sets lockedUntil = now + lockoutDuration; while now < lockedUntil every
\* login attempt, correct credentials included, is rejected as locked and
\* creates no session; once lockoutDuration has elapsed correct credentials
\* succeed; a successful login resets failedLoginAttempts to 0.
C13_Lockout ==
    [][\A u \in Users :
        Attempt(u) =>
            LET r  == users[u]
                r2 == users'[u]
                a  == ops'["w1"]
            IN  IF r.lockedUntil # -1 /\ now < r.lockedUntil
                THEN /\ ~a.ok
                     /\ r2 = [r EXCEPT !.result = "locked"]
                     /\ sessions' = sessions
                ELSE /\ a.ok = a.correct
                     /\ a.ok => /\ r2.failedLoginAttempts = 0
                                 /\ r2.lockedUntil = -1
                                 /\ sessions'[a.token] # NoSession
                     /\ ~a.ok => /\ r2.result = "invalid"
                                  /\ r2.failedLoginAttempts >= 1
                                  /\ sessions' = sessions
                                  /\ (r2.failedLoginAttempts >= maxLoginAttempts)
                                        = (r2.lockedUntil = now + lockoutDuration)
                                  /\ (r2.failedLoginAttempts < maxLoginAttempts)
                                        = (r2.lockedUntil = -1)]_vars

\* correct credentials are rejected as locked
C13_Witness ==
    /\ ops["w1"].op = "login"
    /\ ops["w1"].correct
    /\ ~ops["w1"].ok
    /\ users["u1"].result = "locked"
    /\ users["u1"].failedLoginAttempts = maxLoginAttempts
    /\ now < users["u1"].lockedUntil

\* C14: checkPermission returns true iff at least one role now assigned to
\* the user grants the permission, whatever was cached before the last
\* mutation of the roles.
C14_CheckPermission ==
    [][(/\ authz' # authz
        /\ authz'.assigned = authz.assigned
        /\ authz'.granted = authz.granted) =>
            authz'.answer.allowed =
                (\E r \in authz.assigned : authz'.answer.perm \in authz.granted[r])]_vars

\* the user holds R2 only, R1 grants the permission, and the check says no
C14_Witness ==
    /\ authz.answer = [perm |-> "agenda-builder:meeting:create", allowed |-> FALSE]
    /\ authz.assigned = {"R2"}
    /\ "agenda-builder:meeting:create" \in authz.granted["R1"]
    /\ authz.granted["R2"] = {}
    /\ authz.cache.version = authz.version
    /\ authz.version >= 4

\* the step in which a destroy(tok) is answered
Destroys(w, tok) ==
    /\ ops'[w].op = "destroy"
    /\ ops'[w].token = tok
    /\ <<ops, sessions>>' # <<ops, sessions>>

\* C15: destroy(token) never errors, whether the token is known, unknown or
\* destroyed before; it leaves every other session unchanged, and a
\* validate(token) after it fails.
C15_DestroyIdempotent ==
    [][\A w \in Workers :
        /\ \A tok \in Tokens :
            Destroys(w, tok) =>
                /\ ops'[w].ok
                /\ sessions'[tok] = NoSession
                /\ \A t \in Tokens \ {tok} : sessions'[t] = sessions[t]
        /\ (Completes(w, "validate") /\ sessions[ops[w].token] = NoSession) => ~ops'[w].ok]_vars

\* a destroy has been answered while the other session lives on
C15_Witness ==
    /\ ops["w1"] = Done("destroy", "t1", TRUE)
    /\ sessions["t1"] = NoSession
    /\ sessions["t2"] # NoSession

\* C16: whatever the interleaving of validate, renew and sweep on a token,
\* a live session record changes only by a renewal computed from the record
\* as it stands (never by a write of a record read earlier), and is removed
\* only when it has expired.
C16_Serialized ==
    [][\A tok \in Tokens :
        LET s == sessions[tok]
            live == now <= s.expiresAt /\ now <= s.createdAt + maxDuration
        IN  (s # NoSession /\ sessions'[tok] # s) =>
                IF sessions'[tok] = NoSession
                THEN ~live
                ELSE /\ live
                     /\ sessions'[tok].createdAt = s.createdAt
                     /\ sessions'[tok].expiresAt =
                            IF now + idleTimeout <= s.createdAt + maxDuration
                            THEN now + idleTimeout ELSE s.createdAt + maxDuration]_vars

\* an instance holds a record that another instance has renewed since
C16_Witness ==
    \E w \in Workers :
        /\ ops[w].pc = "read"
        /\ ops[w].op \in {"validate", "sweep"}
        /\ sessions["t1"] # NoSession
        /\ ops[w].snap["t1"] # sessions["t1"]
        /\ sessions["t1"].expiresAt > ops[w].snap["t1"].expiresAt

\* the step in which thread t calls disconnect() of the wrapper op belongs to
CallsDisconnect(t, op) == Settled(t) /\ frame'[t] # frame[t] /\ frame'[t].op = op

C22_OneLiveHandle ==
    [][\A t \in Callers :
        /\ (frame[t].op = "db.connect" /\ frame[t].pc = "resolved" /\ pool = frame[t].obj
                /\ pool' # pool /\ pool' # 0) => pools[pool].ending
        /\ (frame[t].op = "redis.connect" /\ frame[t].pc = "resolved" /\ client = frame[t].obj
                /\ client' # client /\ client' # 0) => clients[client].quit]_vars

\* C23: when redis.connect() rejects after database.connect() has succeeded,
\* database.disconnect() closes the pool before the process exits with code 1.
C23_PoolClosedOnInitFailure ==
    (mainPc = "failed" /\ frame[Main].op = "redis.connect" /\ exitCode = 1) =>
        /\ Pos("db_disconnect_start", 0) > 0
        /\ pools[1].ending

\* C24: when the close callback of a graceful shutdown has run and the
\* callback has come to its end, database.disconnect() and redis.disconnect()
\* have both been attempted, also when database.disconnect() rejected.
C24_BothDisconnectsAttempted ==
    \A i \in DOMAIN shutdowns :
        shutdowns[i].pc \in {"done", "failed"} =>
            /\ Pos("db_disconnect_start", i) > 0
            /\ Pos("redis_disconnect_start", i) > 0

\* the process has ended
Exited == exitCode # Running

\* the close callback of the i-th shutdown ran and both disconnects resolved
GracefulDone(i) ==
    /\ Before("server_closed", "db_disconnect_done", i)
    /\ Before("db_disconnect_done", "redis_disconnect_done", i)

\* C25: a process that ends ends with code 0 or 1; it ends with code 0 iff
\* the last thing it did was to complete a graceful shutdown (the close
\* callback ran, database.disconnect() and then redis.disconnect() resolved),
\* whatever the trigger; an exit by the forced-shutdown timer, by a catch
\* block or at startup is an exit with code 1.
C25_ExitCode ==
    Exited =>
        /\ exitCode \in {0, 1}
        /\ events # <<>>
        /\ LET last == events[Len(events)] IN
            /\ last[1] \in {"exit0", "exit1"}
            /\ (exitCode = 0) = (last[1] = "exit0")
            /\ (exitCode = 0) =
                  (/\ last[2] \in DOMAIN shutdowns
                   /\ shutdowns[last[2]].signal \in Signals
                   /\ shutdowns[last[2]].pc = "done"
                   /\ GracefulDone(last[2])
                   /\ Len(events) > 1
                   /\ events[Len(events) - 1] = Event("redis_disconnect_done", last[2]))
            /\ (mainPc = "failed" \/ \E i \in DOMAIN shutdowns : shutdowns[i].pc = "failed")
                  => exitCode = 1

\* an uncaught exception started a shutdown that ended with code 0
C25_Witness ==
    /\ exitCode = 0
    /\ Len(shutdowns) = 1
    /\ shutdowns[1].signal = "uncaughtException"
    /\ shutdowns[1].timer
    /\ GracefulDone(1)

\* C26: set() sends SETEX with the given expiration whenever
\* expirationSeconds is supplied, 0 included, and a plain SET only when the
\* argument is omitted.
C26_SetExpiration ==
    \A t \in Callers :
        (frame[t].op = "redis.set" /\ frame[t].obj # 0) =>
            (frame[t].cmd = "setEx") = (frame[t].exp # -1)

\* the operations of the wrappers that catch, log and rethrow
Logging == {"db.query", "redis.set", "redis.get", "redis.del", "redis.exists", "redis.expire"}

\* C27: when the pool query or the Redis command of query, set, get, del,
\* exists or expire fails, the wrapper logs the error and rejects with that
\* error, returns nothing and leaves its handle unchanged; it resolves only
\* when the store has answered the command.
C27_ErrorsRethrown ==
    [][\A t \in Callers :
        (frame[t].op \in Logging /\ InRoundTrip(frame[t]) /\ ~InRoundTrip(frame'[t])) =>
            /\ pool' = pool
            /\ client' = client
            /\ frame'[t].op = frame[t].op
            /\ frame'[t].pc \in {"resolved", "rejected"}
            /\ frame'[t].pc = "rejected" =>
                /\ frame'[t].err \in {"store_error", "timeout"}
                /\ frame'[t].logged
            /\ frame'[t].pc = "resolved" =>
                /\ frame'[t].err = "none"
                /\ ~frame'[t].logged
                /\ StoreOf(frame[t]) \notin silent
                /\ frame[t].op # "db.query" => clients[frame[t].obj].state = "open"]_vars

\* a Redis command failed and the caller got the error
C27_Witness ==
    \E t \in Callers :
        /\ frame[t].op = "redis.get"
        /\ frame[t].pc = "rejected"
        /\ frame[t].err = "store_error"
        /\ frame[t].logged
        /\ client = frame[t].obj
        /\ client # 0

\* C28: when connect() of Database settles, the client it checked out for
\* its test query is back in the pool.
C28_TestClientReleased ==
    \A t \in Callers :
        (frame[t].op = "db.connect" /\ frame[t].pc \in {"resolved", "rejected"}) =>
            pools[frame[t].obj].out = 0

\* the request log entries of the exchange
RequestEntries ==
    {k \in DOMAIN lastExchange.ctx.log :
        /\ lastExchange.ctx.log[k].level = "info"
        /\ lastExchange.ctx.log[k].method = Req.method
        /\ lastExchange.ctx.log[k].path = Req.path}

\* C29: every request that has been answered has exactly one request log
\* entry with its method and path, requests answered 404 or 500 included.
C29_RequestLogged ==
    Served => Cardinality(RequestEntries) = 1

\* C30: after loading, every numeric field of config is an integer, whatever
\* its environment variable holds.
C30_NumericFields ==
    configState = "loaded" => \A v \in NumVars : ~config[v].nan

====
